---- MODULE Spec2Model ----
(***************************************************************************)
(* Model of examples/pipelines/rag/text_to_sql_pipeline.py: the Pipeline   *)
(* class (constructor, init_db_connection, on_startup, on_shutdown, pipe)  *)
(* together with the hosting server that constructs it and calls it, the   *)
(* external library calls pipe makes, and the caller that iterates the     *)
(* value pipe returns.                                                     *)
(*                                                                         *)
(* Python objects are records with a "type" field.  A call into           *)
(* llama_index / sqlalchemy either returns the object built from exactly   *)
(* the arguments the code passes, or raises; which of the two happens is   *)
(* chosen by the environment (the record "lib" below).                     *)
(***************************************************************************)
EXTENDS Integers, Sequences, FiniteSets, TLC

\* ---------------------------------------------------------------- bounds
MaxStartups  == 2   \* on_startup calls the server makes on one instance
MaxFragments == 2   \* longest answer, in streamed fragments
MaxPasses    == 2   \* iteration passes the caller makes over one result

\* ------------------------------------------------------- python values
NoneVal == [type |-> "NoneType"]

RequiredVars == <<"PG_HOST", "PG_PORT", "PG_USER", "PG_PASSWORD", "PG_DB">>

EnvVars == {RequiredVars[i] : i \in 1..Len(RequiredVars)}

\* The values the deployment exports, for the variables it does export.
EnvValue ==
    [PG_HOST |-> "db.internal", PG_PORT |-> "5432", PG_USER |-> "reader",
     PG_PASSWORD |-> "s3cret", PG_DB |-> "sales"]

\* os.environ: a mapping whose domain is the set of exported variables.
Environments == {[v \in present |-> EnvValue[v]] : present \in SUBSET EnvVars}

Missing(environ) == {i \in 1..Len(RequiredVars) : RequiredVars[i] \notin DOMAIN environ}

\* The first os.environ[...] lookup, in source order, that raises KeyError.
FirstMissing(environ) ==
    CHOOSE i \in Missing(environ) : \A j \in Missing(environ) : i <= j

\* Pipeline.__init__ read with dict.get(name, ""): a soft default for an
\* absent variable instead of a KeyError.
Pipeline_init_soft_default(environ) ==
    LET get(v) == IF v \in DOMAIN environ THEN environ[v] ELSE ""
    IN  [type |-> "Pipeline",
         PG_HOST |-> get("PG_HOST"), PG_PORT |-> get("PG_PORT"),
         PG_USER |-> get("PG_USER"), PG_PASSWORD |-> get("PG_PASSWORD"),
         PG_DB |-> get("PG_DB"),
         ollama_host |-> "http://host.docker.internal:11434",
         model |-> "phi3:medium-128k",
         engine |-> NoneVal,
         nlsql_response |-> "",
         tables |-> <<"db_table">>]

\* Pipeline.__init__: the new instance, or the KeyError of the first
\* os.environ[...] lookup of an absent variable.
Pipeline_init(environ) ==
    IF Missing(environ) # {}
    THEN [type |-> "KeyError", key |-> RequiredVars[FirstMissing(environ)]]
    ELSE [type |-> "Pipeline",
          PG_HOST |-> environ["PG_HOST"], PG_PORT |-> environ["PG_PORT"],
          PG_USER |-> environ["PG_USER"], PG_PASSWORD |-> environ["PG_PASSWORD"],
          PG_DB |-> environ["PG_DB"],
          ollama_host |-> "http://host.docker.internal:11434",
          model |-> "phi3:medium-128k",
          engine |-> NoneVal,
          nlsql_response |-> "",
          tables |-> <<"db_table">>]

\* The f-string of init_db_connection, as its literal and substituted parts.
ConnectionUrl(self) ==
    <<"postgresql+psycopg2://", self.PG_USER, ":", self.PG_PASSWORD, "@",
      self.PG_HOST, ":", self.PG_PORT, "/", self.PG_DB>>

\* sqlalchemy.create_engine(url): a new handle; id tells handles apart.
create_engine(url, id) == [type |-> "Engine", url |-> url, id |-> id]

\* init_db_connection: self.engine = create_engine(...)
init_db_connection(self, id) ==
    [self EXCEPT !.engine = create_engine(ConnectionUrl(self), id)]

\* on_startup: calls init_db_connection; when create_engine raises, the
\* assignment to self.engine does not happen.
on_startup(self, id, created) ==
    IF created THEN init_db_connection(self, id) ELSE self

\* on_shutdown with a teardown that drops the handle.
on_shutdown_dispose(self) == [self EXCEPT !.engine = NoneVal]

\* on_shutdown: pass
on_shutdown(self) == self

\* ------------------------------------------------------- inputs of pipe
UserMessages == {"", "show every row of other_table"}

ModelIds == {"phi3:medium-128k", "llama3:70b"}

MessageLists == {<<>>, <<[role |-> "user", content |-> "use llama3:70b"]>>}

Bodies == {[stream |-> TRUE], [stream |-> TRUE, model |-> "llama3:70b"]}

\* ------------------------------------------- outcomes of library calls
\* The i-th fragment of a streamed answer.
Fragment(i) == <<"There", " are", " 5", " rows.">>[((i - 1) % 4) + 1]

\* The answers the model may stream: zero to MaxFragments fragments.
Answers == {[i \in 1..n |-> Fragment(i)] : n \in 0..MaxFragments}

ConstructorSites == {"SQLDatabase", "Ollama", "PromptTemplate", "NLSQLTableQueryEngine"}

\* database unreachable or malformed / model host unreachable or timed out /
\* generated SQL invalid
QueryErrors == {"OperationalError", "ReadTimeout", "ProgrammingError"}

\* One choice of the environment for the library calls of one pipe
\* invocation: which call raises (if any) and with what, and otherwise the
\* fragments the model streams back.
LibOutcomes ==
    [raises : {"none"}, error : {"none"}, items : Answers]
    \cup [raises : ConstructorSites, error : {"LibraryError"}, items : {<<>>}]
    \cup [raises : {"query"}, error : QueryErrors, items : {<<>>}]

Exception(lib) == [type |-> lib.error, raised_by |-> lib.raises]

\* ---------------------------------------------- library constructors
SQLDatabase(engine, include_tables) ==
    [type |-> "SQLDatabase", engine |-> engine, include_tables |-> include_tables]

Ollama(model, base_url, request_timeout, context_window) ==
    [type |-> "Ollama", model |-> model, base_url |-> base_url,
     request_timeout |-> request_timeout, context_window |-> context_window]

\* The prompt text of pipe: instructions and the three placeholders.
text_to_sql_prompt ==
    <<"Given an input question, first create a syntactically correct ",
      "{dialect}",
      " query to run, then look at the results of the query and return the answer. ...",
      "Only use tables listed below.",
      "{schema}",
      "Question: ",
      "{query_str}",
      "SQLQuery: ">>

PromptTemplate(template) == [type |-> "PromptTemplate", template |-> template]

NLSQLTableQueryEngine(sql_database, tables, llm, embed_model, prompt, streaming) ==
    [type |-> "NLSQLTableQueryEngine", sql_database |-> sql_database,
     tables |-> tables, llm |-> llm, embed_model |-> embed_model,
     text_to_sql_prompt |-> prompt, streaming |-> streaming]

\* The streaming response of query_engine.query: response_gen is a generator
\* over the fragments; pos counts the fragments it has already yielded.
StreamingResponse(items) ==
    [type |-> "StreamingResponse",
     response_gen |-> [type |-> "generator", items |-> items, pos |-> 0]]

\* --------------------------------------------------- one pipe invocation
\* The frame of an invocation: its arguments, its locals, the statement it
\* is at (pc, named by source line), and how it ended (result / exception).
\* asked and lib_raised record what crossed the library boundary: the
\* questions given to query_engine.query and the exception a library call
\* raised.
NewFrame(user_message, model_id, messages, body) ==
    [type |-> "frame", pc |-> "L51",
     user_message |-> user_message, model_id |-> model_id,
     messages |-> messages, body |-> body,
     sql_database |-> NoneVal, llm |-> NoneVal,
     text_to_sql_template |-> NoneVal, query_engine |-> NoneVal,
     response |-> NoneVal,
     asked |-> <<>>, lib_raised |-> NoneVal,
     result |-> NoneVal, exception |-> NoneVal]

\* A library call raises and pipe has no handler: the exception unwinds out
\* of pipe unchanged.
Unwind(s, lib) ==
    [s EXCEPT !.f.pc = "raised", !.f.lib_raised = Exception(lib),
              !.f.exception = Exception(lib)]

Finished(f) == f.pc \in {"returned", "raised"}

\* -------------------------------------------- the statements of pipe
\* Each statement maps the instance and the frame before it to the instance
\* and the frame after it (s = [self |-> ..., f |-> ...]).

\* Table names a question mentions.
MentionedTables(user_message) ==
    IF user_message = "show every row of other_table" THEN <<"other_table">> ELSE <<>>

\* Line 51 with the schema view widened by the tables the question names.
Stmt51_tables_from_question(s, lib) ==
    IF lib.raises = "SQLDatabase" THEN Unwind(s, lib)
    ELSE [s EXCEPT
            !.f.sql_database =
                SQLDatabase(s.self.engine,
                            s.self.tables \o MentionedTables(s.f.user_message)),
            !.f.pc = "L54"]

\* Line 51 preceded by `if not user_message: return ""`.
Stmt51_reject_empty(s, lib) ==
    IF s.f.user_message = ""
    THEN [s EXCEPT !.f.pc = "returned", !.f.result = [type |-> "str", items |-> <<>>]]
    ELSE IF lib.raises = "SQLDatabase" THEN Unwind(s, lib)
    ELSE [s EXCEPT !.f.sql_database = SQLDatabase(s.self.engine, s.self.tables),
                   !.f.pc = "L54"]

\* Line 51: sql_database = SQLDatabase(self.engine, include_tables=self.tables)
Stmt51(s, lib) ==
    IF lib.raises = "SQLDatabase" THEN Unwind(s, lib)
    ELSE [s EXCEPT !.f.sql_database = SQLDatabase(s.self.engine, s.self.tables),
                   !.f.pc = "L54"]

\* Line 54 with the caller's model_id as the model.
Stmt54_model_from_caller(s, lib) ==
    IF lib.raises = "Ollama" THEN Unwind(s, lib)
    ELSE [s EXCEPT !.f.llm = Ollama(s.f.model_id, s.self.ollama_host, 180, 30000),
                   !.f.pc = "L57"]

\* Line 54 preceded by `self.model = model_id`.
Stmt54_retain_model_id(s, lib) ==
    IF lib.raises = "Ollama"
    THEN Unwind([s EXCEPT !.self.model = s.f.model_id], lib)
    ELSE [s EXCEPT !.self.model = s.f.model_id,
                   !.f.llm = Ollama(s.f.model_id, s.self.ollama_host, 180, 30000),
                   !.f.pc = "L57"]

\* Line 54: llm = Ollama(model=self.model, base_url=self.ollama_host,
\*                       request_timeout=180.0, context_window=30000)
Stmt54(s, lib) ==
    IF lib.raises = "Ollama" THEN Unwind(s, lib)
    ELSE [s EXCEPT !.f.llm = Ollama(s.self.model, s.self.ollama_host, 180, 30000),
                   !.f.pc = "L57"]

\* Lines 57-77: text_to_sql_template = PromptTemplate(text_to_sql_prompt)
Stmt57(s, lib) ==
    IF lib.raises = "PromptTemplate" THEN Unwind(s, lib)
    ELSE [s EXCEPT !.f.text_to_sql_template = PromptTemplate(text_to_sql_prompt),
                   !.f.pc = "L79"]

\* Lines 79-86: query_engine = NLSQLTableQueryEngine(...)
Stmt79(s, lib) ==
    IF lib.raises = "NLSQLTableQueryEngine" THEN Unwind(s, lib)
    ELSE [s EXCEPT
            !.f.query_engine =
                NLSQLTableQueryEngine(s.f.sql_database, s.self.tables, s.f.llm,
                                      "local", s.f.text_to_sql_template, TRUE),
            !.f.pc = "L88"]

\* Line 88 wrapped in `try: ... except Exception: return ""`.
Stmt88_fallback(s, lib) ==
    LET asked == [s EXCEPT !.f.asked = Append(@, s.f.user_message)]
    IN  IF lib.raises = "query"
        THEN [asked EXCEPT !.f.lib_raised = Exception(lib),
                           !.f.pc = "returned",
                           !.f.result = [type |-> "str", items |-> <<>>]]
        ELSE [asked EXCEPT !.f.response = StreamingResponse(lib.items),
                           !.f.pc = "L90"]

\* Line 88 with the question parked on the instance:
\* self.nlsql_response = user_message; query_engine.query(self.nlsql_response)
Stmt88_shared_question(s, lib) ==
    LET parked == [s EXCEPT !.self.nlsql_response = s.f.user_message]
        asked  == [parked EXCEPT !.f.asked = Append(@, parked.self.nlsql_response)]
    IN  IF lib.raises = "query" THEN Unwind(asked, lib)
        ELSE [asked EXCEPT !.f.response = StreamingResponse(lib.items),
                           !.f.pc = "L90"]

\* Line 88: response = query_engine.query(user_message)
Stmt88(s, lib) ==
    LET asked == [s EXCEPT !.f.asked = Append(@, s.f.user_message)]
    IN  IF lib.raises = "query" THEN Unwind(asked, lib)
        ELSE [asked EXCEPT !.f.response = StreamingResponse(lib.items),
                           !.f.pc = "L90"]

\* Line 90 returning list(response.response_gen).
Stmt90_materialized(s, lib) ==
    [s EXCEPT !.f.result = [type |-> "list", items |-> s.f.response.response_gen.items],
              !.f.pc = "returned"]

\* Line 90: return response.response_gen
Stmt90(s, lib) ==
    [s EXCEPT !.f.result = s.f.response.response_gen, !.f.pc = "returned"]

\* The statement the frame is at.
PipeStep(s, lib) ==
    CASE s.f.pc = "L51" -> Stmt51(s, lib)
      [] s.f.pc = "L54" -> Stmt54(s, lib)
      [] s.f.pc = "L57" -> Stmt57(s, lib)
      [] s.f.pc = "L79" -> Stmt79(s, lib)
      [] s.f.pc = "L88" -> Stmt88(s, lib)
      [] s.f.pc = "L90" -> Stmt90(s, lib)
      [] OTHER -> s

RECURSIVE PipeRun(_, _)
\* The statements of pipe in order, until it returns or raises.
PipeRun(s, lib) ==
    IF Finished(s.f) THEN s ELSE PipeRun(PipeStep(s, lib), lib)

\* Pipeline.pipe, as one call.
pipe(self, user_message, model_id, messages, body, lib) ==
    PipeRun([self |-> self, f |-> NewFrame(user_message, model_id, messages, body)], lib)

\* ------------------------------------------ iterating what pipe returned
\* iter(obj): a generator is its own iterator; a list or a str gives a new
\* iterator positioned at its start.
Iter(obj) ==
    IF obj.type = "generator" THEN obj
    ELSE [type |-> "iterator", items |-> obj.items, pos |-> 0]

HasNext(iterator) == iterator.pos < Len(iterator.items)

\* next(iterator), when it yields: the fragment and the advanced iterator.
NextItem(iterator) == iterator.items[iterator.pos + 1]

Advance(iterator) == [iterator EXCEPT !.pos = @ + 1]

\* ------------------------------------------------------------- state
VARIABLES
    env,        \* os.environ of the server process
    pipeline,   \* the server's Pipeline instance: NoneVal before construction,
                \* the KeyError if construction failed
    startups,   \* on_startup calls made so far
    lastOp,     \* the operation the server performed last on the instance
    call,       \* frame of the latest pipe invocation served to completion
    stream,     \* the value that invocation returned, as held by the caller
    it,         \* the iterator of the caller's current pass over stream
    received,   \* the fragments the caller has been given from stream
    passes,     \* iteration passes the caller has started over stream
    frames      \* frames of the invocations in flight on concurrent workers

vars == <<env, pipeline, startups, lastOp, call, stream, it, received, passes, frames>>

\* Worker threads of the hosting server that may run pipe concurrently.
Requests == {"w1", "w2"}

\* Arguments the concurrent workers are called with.
ConcurrentMessages == {"", "show every row of other_table"}

Init ==
    /\ env \in Environments
    /\ pipeline = NoneVal
    /\ startups = 0
    /\ lastOp = "none"
    /\ call = NoneVal
    /\ stream = NoneVal
    /\ it = NoneVal
    /\ received = <<>>
    /\ passes = 0
    /\ frames = [r \in Requests |-> NoneVal]

\* The server loads the module and constructs Pipeline().
Construct ==
    /\ pipeline = NoneVal
    /\ pipeline' = Pipeline_init(env)
    /\ lastOp' = "__init__"
    /\ UNCHANGED <<env, startups, call, stream, it, received, passes, frames>>

\* The server awaits pipeline.on_startup().
OnStartup ==
    /\ pipeline.type = "Pipeline"
    /\ startups < MaxStartups
    /\ \E created \in BOOLEAN :
          pipeline' = on_startup(pipeline, startups + 1, created)
    /\ startups' = startups + 1
    /\ lastOp' = "on_startup"
    /\ UNCHANGED <<env, call, stream, it, received, passes, frames>>

\* The server awaits pipeline.on_shutdown().
OnShutdown ==
    /\ pipeline.type = "Pipeline"
    /\ pipeline' = on_shutdown(pipeline)
    /\ lastOp' = "on_shutdown"
    /\ UNCHANGED <<env, startups, call, stream, it, received, passes, frames>>

\* The server serves one request: pipeline.pipe(...) from call to return or
\* raise.  The caller drops whatever it held from the previous request.
Pipe ==
    /\ pipeline.type = "Pipeline"
    /\ \E um \in UserMessages, mid \in ModelIds, ms \in MessageLists,
          b \in Bodies, lib \in LibOutcomes :
          \E s \in {pipe(pipeline, um, mid, ms, b, lib)} :
              /\ pipeline' = s.self
              /\ call' = s.f
              /\ stream' = s.f.result
    /\ it' = NoneVal
    /\ received' = <<>>
    /\ passes' = 0
    /\ lastOp' = "pipe"
    /\ UNCHANGED <<env, startups, frames>>

\* The caller starts a pass over the returned value: for fragment in stream
CallerIter ==
    /\ stream.type # "NoneType"
    /\ passes < MaxPasses
    /\ it' = Iter(stream)
    /\ passes' = passes + 1
    /\ UNCHANGED <<env, pipeline, startups, lastOp, call, stream, received, frames>>

\* The caller pulls from the iterator: the next fragment, or StopIteration,
\* which ends the pass.  A generator is the iterator itself, so pulling from
\* the iterator advances the generator the caller holds.
CallerNext ==
    /\ it.type # "NoneType"
    /\ IF HasNext(it)
       THEN /\ received' = Append(received, NextItem(it))
            /\ it' = Advance(it)
            /\ stream' = IF stream.type = "generator" THEN Advance(it) ELSE stream
       ELSE /\ it' = NoneVal
            /\ UNCHANGED <<received, stream>>
    /\ UNCHANGED <<env, pipeline, startups, lastOp, call, passes, frames>>

Next ==
    \/ Construct
    \/ OnStartup
    \/ OnShutdown
    \/ Pipe
    \/ CallerIter
    \/ CallerNext

Spec == Init /\ [][Next]_vars

\* --------------------------------------------- concurrent invocations
\* A worker thread enters pipe.
PipeCall(r) ==
    /\ pipeline.type = "Pipeline"
    /\ frames[r].type = "NoneType"
    /\ \E um \in ConcurrentMessages, mid \in ModelIds :
          frames' = [frames EXCEPT ![r] = NewFrame(um, mid, <<>>, [stream |-> TRUE])]
    /\ lastOp' = "pipe"
    /\ UNCHANGED <<env, pipeline, startups, call, stream, it, received, passes>>

\* A worker thread executes the statement it is at.
PipeExec(r) ==
    /\ frames[r].type = "frame"
    /\ ~Finished(frames[r])
    /\ \E lib \in LibOutcomes :
          \E s \in {PipeStep([self |-> pipeline, f |-> frames[r]], lib)} :
              /\ pipeline' = s.self
              /\ frames' = [frames EXCEPT ![r] = s.f]
    /\ lastOp' = "pipe"
    /\ UNCHANGED <<env, startups, call, stream, it, received, passes>>

\* The server takes the outcome of a finished invocation; the worker is free.
PipeDone(r) ==
    /\ frames[r].type = "frame"
    /\ Finished(frames[r])
    /\ frames' = [frames EXCEPT ![r] = NoneVal]
    /\ lastOp' = "pipe"
    /\ UNCHANGED <<env, pipeline, startups, call, stream, it, received, passes>>

NextConc ==
    \/ Construct
    \/ OnStartup
    \/ \E r \in Requests : PipeCall(r)
    \/ \E r \in Requests : PipeExec(r)
    \/ \E r \in Requests : PipeDone(r)

SpecConc == Init /\ [][NextConc]_vars

\* ------------------------------------------------------------ claims
\* The configuration every invocation is expected to build, written out.
FixedTables == <<"db_table">>

FixedLlm == Ollama("phi3:medium-128k", "http://host.docker.internal:11434", 180, 30000)

IsNone(v) == v.type = "NoneType"

\* C1: if any of the five required environment variables is absent, the
\* constructor fails with the KeyError of an absent variable, no Pipeline
\* instance exists, and no hook or request is ever served.
C1_MissingVarNeverServes ==
    (EnvVars \ DOMAIN env # {}) =>
        /\ pipeline.type # "Pipeline"
        /\ lastOp \in {"none", "__init__"}
        /\ IsNone(call)
        /\ \A r \in Requests : IsNone(frames[r])
        /\ lastOp = "__init__" =>
              /\ pipeline.type = "KeyError"
              /\ pipeline.key \in EnvVars \ DOMAIN env

\* One variable is absent, the other four are present, and construction has
\* been attempted.
C1_Witness ==
    \E v \in EnvVars :
        /\ DOMAIN env = EnvVars \ {v}
        /\ lastOp = "__init__"
        /\ pipeline.type = "KeyError"
        /\ pipeline.key = v

\* C3: in every pipe invocation, whatever the question, the table list given
\* to the schema view and to the query engine is ["db_table"], and the
\* instance's tables attribute never changes.
C3_AllowListFixed ==
    /\ pipeline.type = "Pipeline" => pipeline.tables = FixedTables
    /\ (call.type = "frame" /\ call.sql_database.type = "SQLDatabase") =>
          call.sql_database.include_tables = FixedTables
    /\ (call.type = "frame" /\ call.query_engine.type = "NLSQLTableQueryEngine") =>
          /\ call.query_engine.tables = FixedTables
          /\ call.query_engine.sql_database.include_tables = FixedTables

\* A question naming another table has been served to the end, after a
\* shutdown and a restart of the hooks.
C3_Witness ==
    /\ call.type = "frame"
    /\ call.user_message = "show every row of other_table"
    /\ call.pc = "returned"
    /\ call.query_engine.tables = FixedTables
    /\ startups = MaxStartups

\* C4: whatever model_id, messages and body the caller passes, the LLM client
\* of the invocation is built with the configured endpoint and model, a 180 s
\* timeout and a 30000-token context window, and that client is the one the
\* query engine gets.
C4_ModelConfigIgnoresCaller ==
    /\ (call.type = "frame" /\ call.llm.type = "Ollama") => call.llm = FixedLlm
    /\ (call.type = "frame" /\ call.query_engine.type = "NLSQLTableQueryEngine") =>
          call.query_engine.llm = FixedLlm

\* An invocation whose caller asked for another model in all three arguments
\* has built its client and returned.
C4_Witness ==
    /\ call.type = "frame"
    /\ call.pc = "returned"
    /\ call.model_id = "llama3:70b"
    /\ Len(call.messages) = 1
    /\ "model" \in DOMAIN call.body
    /\ call.llm.model = "phi3:medium-128k"

\* C5: an invocation with the empty question ends early only when a library
\* constructor raised; otherwise the template, LLM client and query engine
\* are the ones built for any question and the engine is asked exactly once,
\* with the empty question.
C5_EmptyMessageDelegates ==
    (call.type = "frame" /\ call.user_message = "") =>
        \/ /\ call.pc = "raised"
           /\ call.exception = call.lib_raised
           /\ call.exception.raised_by \in ConstructorSites
        \/ /\ call.asked = <<"">>
           /\ call.text_to_sql_template = PromptTemplate(text_to_sql_prompt)
           /\ call.llm = FixedLlm
           /\ call.query_engine =
                 NLSQLTableQueryEngine(call.sql_database, FixedTables, FixedLlm,
                                       "local", PromptTemplate(text_to_sql_prompt), TRUE)

\* A started instance has served the empty question through to the query
\* engine and returned its stream.
C5_Witness ==
    /\ call.type = "frame"
    /\ call.user_message = ""
    /\ call.pc = "returned"
    /\ call.asked = <<"">>
    /\ call.sql_database.engine.type = "Engine"

IsPrefix(p, q) == Len(p) <= Len(q) /\ \A i \in 1..Len(p) : p[i] = q[i]

\* C6: what the caller is given from the returned value is always a prefix of
\* the answer's fragments, in order; when a pass is ended by StopIteration the
\* caller has been given exactly the answer; further passes add nothing.
C6_SinglePassStream ==
    ~IsNone(stream) =>
        /\ IsPrefix(received, stream.items)
        /\ (passes > 0 /\ IsNone(it)) => received = stream.items

\* The caller has consumed a two-fragment answer and a later pass over the
\* same value has ended.
C6_Witness ==
    /\ ~IsNone(stream)
    /\ Len(stream.items) >= 2
    /\ passes >= 2
    /\ IsNone(it)
    /\ received = stream.items

\* C7: an invocation asks the query engine at most once, and when a library
\* call raised, pipe ends by raising that same exception: no retry, no
\* returned value in its place.
C7_FailureUnwinds ==
    call.type = "frame" =>
        /\ Len(call.asked) <= 1
        /\ ~IsNone(call.lib_raised) =>
              /\ call.pc = "raised"
              /\ call.exception = call.lib_raised
              /\ IsNone(call.result)

\* The query engine was asked once and failed, and pipe raised.
C7_Witness ==
    /\ call.type = "frame"
    /\ call.pc = "raised"
    /\ call.exception.raised_by = "query"
    /\ call.exception.type = "ReadTimeout"
    /\ Len(call.asked) = 1

\* C8: a step that serves a request (it leaves lastOp = "pipe") leaves every
\* attribute of the instance as it was, whether pipe returned or raised.
C8_PipeRetainsNothing ==
    [][lastOp' = "pipe" => pipeline' = pipeline]_vars

\* A request carrying another model_id has failed, after an earlier startup,
\* and the instance still has its configured model and empty nlsql_response.
C8_Witness ==
    /\ lastOp = "pipe"
    /\ call.type = "frame"
    /\ call.pc = "raised"
    /\ call.model_id = "llama3:70b"
    /\ pipeline.engine.type = "Engine"
    /\ pipeline.model = "phi3:medium-128k"
    /\ pipeline.nlsql_response = ""

\* C9: serving a request or on_shutdown never changes self.engine; once the
\* handle exists no step makes it None again; on_shutdown changes nothing of
\* the instance or the server; and the schema view of a request is built on
\* the handle the instance holds.
C9_EngineKeptAndReused ==
    [][pipeline.type = "Pipeline" =>
          /\ lastOp' \in {"pipe", "on_shutdown"} => pipeline'.engine = pipeline.engine
          /\ pipeline.engine.type = "Engine" => pipeline'.engine.type = "Engine"
          /\ lastOp' = "on_shutdown" => UNCHANGED <<env, pipeline, startups, call, frames>>
          /\ (lastOp' = "pipe" /\ call'.sql_database.type = "SQLDatabase") =>
                call'.sql_database.engine = pipeline'.engine]_vars

\* After startup a request was served on the handle, then on_shutdown ran,
\* and the handle is still the one the request used.
C9_Witness ==
    /\ lastOp = "on_shutdown"
    /\ pipeline.engine.type = "Engine"
    /\ call.type = "frame"
    /\ call.pc = "returned"
    /\ call.sql_database.engine = pipeline.engine

\* C10: under any interleaving of the statements of concurrent invocations, a
\* step of one invocation changes neither the instance nor the frame of any
\* other invocation, and each invocation asks only its own question of a
\* query engine built on its own schema view and client.
C10_InvocationsIsolated ==
    [][/\ \A r \in Requests :
             frames'[r] # frames[r] =>
                 /\ pipeline' = pipeline
                 /\ \A q \in Requests \ {r} : frames'[q] = frames[q]
       /\ \A r \in Requests :
             frames'[r].type = "frame" =>
                 /\ \A i \in 1..Len(frames'[r].asked) :
                        frames'[r].asked[i] = frames'[r].user_message
                 /\ frames'[r].query_engine.type = "NLSQLTableQueryEngine" =>
                        /\ frames'[r].query_engine.sql_database = frames'[r].sql_database
                        /\ frames'[r].query_engine.llm = frames'[r].llm]_vars

\* Two invocations with different questions were in flight together and both
\* have their own stream.
C10_Witness ==
    /\ frames["w1"].type = "frame"
    /\ frames["w2"].type = "frame"
    /\ frames["w1"].user_message # frames["w2"].user_message
    /\ frames["w1"].pc = "L90"
    /\ frames["w2"].pc = "returned"
    /\ frames["w1"].asked = <<frames["w1"].user_message>>
    /\ frames["w2"].asked = <<frames["w2"].user_message>>

====
